---- MODULE Spec2Model ----
(***************************************************************************)
(* Quantized 2-D average pooling (src/src/ops/average_pool_2d.rs).         *)
(*                                                                         *)
(* average_pool_2d builds the output buffer one cell (i, j, c) at a time:  *)
(* the window of the cell is gathered under the padding policy while the   *)
(* divisor `len` is counted down for every excluded position, the average  *)
(* is requantized in single precision (f32) and cast into the quantized    *)
(* type, and the fused activation is applied.  Tensor4D::new then wraps    *)
(* the buffer with the output scale and zero point.                        *)
(*                                                                         *)
(* The f32 operations are modelled bit-exactly (IEEE-754 binary32, round   *)
(* to nearest even) on sign / 24-bit significand / exponent triples, with  *)
(* all intermediate integers kept below 2^31.                              *)
(***************************************************************************)
EXTENDS Integers, Sequences, FiniteSets

----------------------------------------------------------------------------
(* Single-precision arithmetic.                                            *)
(* A value is [k, sg, m, e]: k = "fin" stands for sg * m * 2^e with m = 0  *)
(* (zero) or 2^23 <= m < 2^24; k = "inf" is sg * infinity; k = "nan" is a  *)
(* NaN.  Exponents stay far from the subnormal and overflow ranges for     *)
(* every value the model produces.                                         *)

Two23 == 2^23
Two24 == 2^24

Abs(n) == IF n < 0 THEN -n ELSE n

Sgn(n) == IF n < 0 THEN -1 ELSE 1

Pow2(n) == 2^n

\* The element of a singleton.  { e(x) : x \in {v} } evaluates v once and
\* binds x to its value, where a LET definition or an operator parameter
\* would be evaluated again at every use.
Val(S) == CHOOSE v \in S : TRUE

F32Zero == [k |-> "fin", sg |-> 1, m |-> 0, e |-> 0]

F32NaN == [k |-> "nan", sg |-> 1, m |-> 0, e |-> 0]

F32Inf(s) == [k |-> "inf", sg |-> s, m |-> 0, e |-> 0]

F32Fin(s, m, e) == [k |-> "fin", sg |-> s, m |-> m, e |-> e]

IsZero(x) == x.k = "fin" /\ x.m = 0

\* the number of bits of n, for 1 <= n < 2^31
BitLen2(n) == IF n >= 2 THEN 2 ELSE n

BitLen4(n) == IF n >= 4 THEN 2 + BitLen2(n \div 4) ELSE BitLen2(n)

BitLen8(n) == IF n >= 16 THEN 4 + BitLen4(n \div 16) ELSE BitLen4(n)

BitLen16(n) == IF n >= 256 THEN 8 + BitLen8(n \div 256) ELSE BitLen8(n)

BitLen(n) == IF n >= 65536 THEN 16 + BitLen16(n \div 65536) ELSE BitLen16(n)

\* n with its low t >= 1 bits rounded off, ties to even
RoundOff(n, t) ==
    LET q == n \div Pow2(t)
        r == n % Pow2(t)
    IN  IF r > Pow2(t - 1) \/ (r = Pow2(t - 1) /\ q % 2 = 1) THEN q + 1 ELSE q

\* Round s * n * 2^e (0 <= n < 2^31) to the nearest f32, ties to even.  The
\* lowest bit of n may be a sticky bit whenever at least two bits are dropped.
F32RoundNE(s, n0, e) ==
    Val({ IF n = 0 THEN F32Zero
          ELSE Val({ IF t <= 0 THEN F32Fin(s, n * Pow2(-t), e + t)
                     ELSE Val({ IF q = Two24 THEN F32Fin(s, Two23, e + t + 1)
                                ELSE F32Fin(s, q, e + t) :
                                q \in {RoundOff(n, t)} }) :
                     t \in {BitLen(n) - 24} }) :
          n \in {n0} })

\* `n as f32` for an integer of magnitude below 2^24 (exact)
F32FromInt(n0) == Val({ F32RoundNE(Sgn(n), Abs(n), 0) : n \in {n0} })

\* the k for which (a * 2^k) \div b has 25 bits (a, b >= 1)
DivShift(a, b) ==
    Val({ IF (a * Pow2(k)) \div b >= Two24 THEN k ELSE k + 1 :
          k \in {24 + BitLen(b) - BitLen(a)} })

\* the f32 quotient a / b of two integers that are exact in f32 (|b| < 32):
\* a is scaled by 2^k so that the integer quotient has 25 bits, and the
\* remainder gives the sticky bit
F32DivInt(a0, b0) ==
    Val({ IF b = 0 THEN (IF a = 0 THEN F32NaN ELSE F32Inf(Sgn(a)))
          ELSE IF a = 0 THEN F32Zero
          ELSE Val({ F32RoundNE(Sgn(a) * Sgn(b),
                                2 * ((Abs(a) * Pow2(k)) \div Abs(b))
                                  + (IF (Abs(a) * Pow2(k)) % Abs(b) = 0 THEN 0 ELSE 1),
                                -k - 1) :
                     k \in {DivShift(Abs(a), Abs(b))} }) :
          a \in {a0}, b \in {b0} })

\* v with a sticky bit in its lowest position when bits were lost below it
Jam(v, lost) == IF lost /\ v % 2 = 0 THEN v + 1 ELSE v

\* The product of two 24-bit significands, in 12-bit halves: with
\* mid = a*d + b*c and lo = b*d + (mid % 2^12) * 2^12 the product is
\* hi * 2^24 + lo % 2^24; 30 bits of it and a sticky bit are kept.
MulSig(xm, ym) ==
    Val({ Val({ Val({ Jam(hi * 64 + (lo % Two24) \div Pow2(18),
                          (lo % Two24) % Pow2(18) # 0) :
                      hi \in {(xm \div 4096) * (ym \div 4096) + mid \div 4096
                              + lo \div Two24} }) :
                lo \in {(xm % 4096) * (ym % 4096) + (mid % 4096) * 4096} }) :
          mid \in {(xm \div 4096) * (ym % 4096) + (xm % 4096) * (ym \div 4096)} })

\* x * y in f32
F32Mul(x0, y0) ==
    Val({ IF x.k = "nan" \/ y.k = "nan" THEN F32NaN
          ELSE IF x.k = "inf" \/ y.k = "inf"
               THEN (IF IsZero(x) \/ IsZero(y) THEN F32NaN ELSE F32Inf(x.sg * y.sg))
          ELSE IF IsZero(x) \/ IsZero(y) THEN F32Zero
          ELSE F32RoundNE(x.sg * y.sg, MulSig(x.m, y.m), x.e + y.e + 18) :
          x \in {x0}, y \in {y0} })

\* big + sml in f32 for finite non-zero values with big.e >= sml.e (guard,
\* round and sticky bits)
AddAligned(big, sml) ==
    Val({ Val({ F32RoundNE(Sgn(S), Abs(S), big.e - 3) :
                S \in {big.sg * big.m * 8 + sml.sg * Y} }) :
          Y \in {IF big.e - sml.e >= 27 THEN 1
                 ELSE Jam((sml.m * 8) \div Pow2(big.e - sml.e),
                          (sml.m * 8) % Pow2(big.e - sml.e) # 0)} })

\* x + y in f32
F32Add(x0, y0) ==
    Val({ IF x.k = "nan" \/ y.k = "nan" THEN F32NaN
          ELSE IF x.k = "inf"
               THEN (IF y.k = "inf" /\ y.sg # x.sg THEN F32NaN ELSE x)
          ELSE IF y.k = "inf" THEN y
          ELSE IF IsZero(x) THEN y
          ELSE IF IsZero(y) THEN x
          ELSE IF x.e >= y.e THEN AddAligned(x, y)
          ELSE AddAligned(y, x) :
          x \in {x0}, y \in {y0} })

BigInt == 2^30

\* roundf: to the nearest integer, halves away from zero.  The result is
\* [k, v]: the integer v when k = "fin" (magnitudes of 2^29 and more are
\* reported as 2^30), the sign v of an infinity, or a NaN.
RoundF(x0) ==
    Val({ IF x.k = "nan" THEN [k |-> "nan", v |-> 0]
          ELSE IF x.k = "inf" THEN [k |-> "inf", v |-> x.sg]
          ELSE IF x.m = 0 THEN [k |-> "fin", v |-> 0]
          ELSE IF x.e >= 6 THEN [k |-> "fin", v |-> x.sg * BigInt]
          ELSE IF x.e >= 0 THEN [k |-> "fin", v |-> x.sg * x.m * Pow2(x.e)]
          ELSE IF x.e < -24 THEN [k |-> "fin", v |-> 0]
          ELSE [k |-> "fin",
                v |-> x.sg * (IF 2 * (x.m % Pow2(-x.e)) >= Pow2(-x.e)
                              THEN x.m \div Pow2(-x.e) + 1
                              ELSE x.m \div Pow2(-x.e))] :
          x \in {x0} })

----------------------------------------------------------------------------
(* The quantized type T of the unit test: i8.                              *)

QMin == -128
QMax == 127

\* a cast that reduces the value modulo 2^8 instead of saturating
F32ToQWrapped(r0) ==
    Val({ IF r.k = "nan" THEN 0
          ELSE IF r.k = "inf" THEN (IF r.v > 0 THEN QMax ELSE QMin)
          ELSE ((r.v - QMin) % (QMax - QMin + 1)) + QMin :
          r \in {r0} })

\* T::from_superset_unchecked(&f32) is the cast `as T`: it saturates, and a
\* NaN becomes 0
F32ToQ(r0) ==
    Val({ IF r.k = "nan" THEN 0
          ELSE IF r.k = "inf" THEN (IF r.v > 0 THEN QMax ELSE QMin)
          ELSE IF r.v > QMax THEN QMax
          ELSE IF r.v < QMin THEN QMin
          ELSE r.v :
          r \in {r0} })

----------------------------------------------------------------------------
(* Fused activations (crate::activation), in the quantized domain.         *)

Max(a, b) == IF a >= b THEN a ELSE b
Min(a, b) == IF a <= b THEN a ELSE b

\* round(n / d), halves away from zero, for n >= 0 and d > 0
RoundDiv(n, d) == (2 * n + d) \div (2 * d)

relu(y, zero_point) == Max(y, zero_point)

\* scale is the positive rational scale[1] / scale[2]
relu6(y, scale, zero_point) ==
    Max(zero_point, Min(y, RoundDiv(6 * scale[2], scale[1]) + zero_point))

----------------------------------------------------------------------------
(* The operator.  A call is described by p: the const generics IR, IC, CH  *)
(* (INPUT_ROWS, INPUT_COLS, INPUT_CHANS), FR, FC (FILTER_ROWS,             *)
(* FILTER_COLS), OR, OC (OUTPUT_ROWS, OUTPUT_COLS), and the arguments       *)
(* strides, padding, fused_activation, constants, output_scale and          *)
(* output_zero_point.  The input buffer maps <<row, col>> to the sequence   *)
(* of the pixel's channel values.  Indices are 0-based as in the source.    *)

VARIABLES p, input, buffer, work, len, pc, output

vars == <<p, input, buffer, work, len, pc, output>>

\* input.buffer[0].get(index)
InBuffer(q, index) ==
    index[1] >= 0 /\ index[1] < q.IR /\ index[2] >= 0 /\ index[2] < q.IC

\* a read of channel 0 whatever the channel asked for
ChanGetFirst(x, c) == x[1]

\* x.get(c).copied().unwrap_or(x[0])
ChanGet(x, c) == IF c < Len(x) THEN x[c + 1] ELSE x[1]

\* whether x.get(c) is None, so that unwrap_or supplies x[0]
FallsBack(x, c) == ~(c < Len(x))

\* a shift of (FILTER_ROWS + 1) / 2 and (FILTER_COLS + 1) / 2
ShiftCeil(q) == <<(q.FR + 1) \div 2, (q.FC + 1) \div 2>>

\* let shift = ((FILTER_ROWS - 1) / 2, (FILTER_COLS - 1) / 2)
Shift(q) == <<(q.FR - 1) \div 2, (q.FC - 1) \div 2>>

\* One call of the closure |m, n| of the view for the cell <<i, j, c>>:
\* val is the element, dec what it takes from len, fb whether the channel
\* fallback supplied the value.
Excluded == [val |-> 0, dec |-> 1, fb |-> 0]

Taken(x, c) ==
    [val |-> ChanGet(x, c), dec |-> 0, fb |-> IF FallsBack(x, c) THEN 1 ELSE 0]

\* a closure that takes 1 from len for the row and 1 for the column of a
\* position out of range in both
ViewElemBothChecked(q, inp, cell, m, n) ==
    LET i == cell[1] j == cell[2] c == cell[3]
        a == q.strides[1] * i + m
        b == q.strides[2] * j + n
    IN  IF q.padding = "SAME"
        THEN LET shift == Shift(q)
                 under == (IF a < shift[1] THEN 1 ELSE 0)
                          + (IF b < shift[2] THEN 1 ELSE 0)
             IN  IF under > 0 THEN [val |-> 0, dec |-> under, fb |-> 0]
                 ELSE IF InBuffer(q, <<a - shift[1], b - shift[2]>>)
                      THEN Taken(inp[<<a - shift[1], b - shift[2]>>], c)
                      ELSE Excluded
        ELSE Taken(inp[<<a, b>>], c)

\* a closure that reads (m, n) under VALID padding, without the strides
ViewElemUnstrided(q, inp, cell, m, n) ==
    LET i == cell[1] j == cell[2] c == cell[3]
        a == q.strides[1] * i + m
        b == q.strides[2] * j + n
    IN  IF q.padding = "SAME"
        THEN LET shift == Shift(q)
             IN  IF a < shift[1] THEN Excluded
                 ELSE IF b < shift[2] THEN Excluded
                 ELSE IF InBuffer(q, <<a - shift[1], b - shift[2]>>)
                      THEN Taken(inp[<<a - shift[1], b - shift[2]>>], c)
                      ELSE Excluded
        ELSE Taken(inp[<<m, n>>], c)

\* the closure: under SAME the row is checked first, then the column, then
\* the buffer; under VALID the element at (strides.0 * i + m, strides.1 * j + n)
ViewElem(q, inp, cell, m, n) ==
    LET i == cell[1] j == cell[2] c == cell[3]
        a == q.strides[1] * i + m
        b == q.strides[2] * j + n
    IN  IF q.padding = "SAME"
        THEN LET shift == Shift(q)
             IN  \* checked_sub of the row, then of the column, then get
                 IF a < shift[1] THEN Excluded
                 ELSE IF b < shift[2] THEN Excluded
                 ELSE IF InBuffer(q, <<a - shift[1], b - shift[2]>>)
                      THEN Taken(inp[<<a - shift[1], b - shift[2]>>], c)
                      ELSE Excluded
        ELSE Taken(inp[<<a, b>>], c)

\* Buffer2D::from_fn visits the view column by column: the k-th call is for
\* (m, n) = ((k - 1) % FR, (k - 1) \div FR).
RECURSIVE View(_, _, _, _, _)
View(q, inp, cell, k0, st0) ==
    Val({ IF k > q.FR * q.FC THEN st
          ELSE Val({ View(q, inp, cell, k + 1,
                          [len |-> st.len - el.dec,
                           sum |-> st.sum + el.val,
                           fb  |-> st.fb + el.fb]) :
                     el \in {ViewElem(q, inp, cell, (k - 1) % q.FR, (k - 1) \div q.FR)} }) :
          k \in {k0}, st \in {st0} })

\* a counter carried over from the previously computed cell
LenStartCarried(q, prev) == prev

\* let mut len = FILTER_ROWS * FILTER_COLS (prev: the counter as the
\* previously computed cell left it)
LenStart(q, prev) == q.FR * q.FC

\* 1. / len as f32 * view.cast::<i32>().sum() as f32
Average(n, sum) == F32Mul(F32DivInt(1, n), F32FromInt(sum))

\* T::from_superset_unchecked(&roundf(constants.0 * x + constants.1))
Requantize(q, x) ==
    F32ToQ(RoundF(F32Add(F32Mul(q.constants[1], x), q.constants[2])))

\* a dispatch that leaves y as it is under RELU
ActivationNoRelu(q, y) ==
    CASE q.fused_activation = "NONE"  -> y
      [] q.fused_activation = "RELU"  -> y
      [] q.fused_activation = "RELU6" -> relu6(y, q.output_scale, q.output_zero_point)

\* a dispatch that applies relu under RELU6
ActivationNoRelu6(q, y) ==
    CASE q.fused_activation = "NONE"  -> y
      [] q.fused_activation = "RELU"  -> relu(y, q.output_zero_point)
      [] q.fused_activation = "RELU6" -> relu(y, q.output_zero_point)

\* match options.fused_activation { NONE => y, RELU => relu(..), RELU6 => relu6(..) }
Activation(q, y) ==
    CASE q.fused_activation = "NONE"  -> y
      [] q.fused_activation = "RELU"  -> relu(y, q.output_zero_point)
      [] q.fused_activation = "RELU6" -> relu6(y, q.output_scale, q.output_zero_point)

\* The closure |c| of the cell <<i, j, c>>: the locals len, sum of the view
\* and y, the fallbacks taken, and the value out of the cell.
PoolCell(q, inp, cell, prev) ==
    Val({ Val({ [len |-> st.len, sum |-> st.sum, fb |-> st.fb, y |-> y,
                 out |-> Activation(q, y)] :
                y \in {Requantize(q, Average(st.len, st.sum))} }) :
          st \in {View(q, inp, cell, 1,
                       [len |-> LenStart(q, prev), sum |-> 0, fb |-> 0])} })

\* the cells of the output buffer: OUTPUT_ROWS x OUTPUT_COLS pixels of
\* INPUT_CHANS channels
Cells(q) == (0 .. q.OR - 1) \X (0 .. q.OC - 1) \X (0 .. q.CH - 1)

\* Buffer2D::from_fn visits the pixels column by column and array::from_fn
\* the channels of a pixel in order: the k-th cell computed (k from 0).
CellAt(q, k) ==
    <<(k \div q.CH) % q.OR, (k \div q.CH) \div q.OR, k % q.CH>>

Extend(f0, x0, v0) ==
    Val({ [y \in DOMAIN f \cup {x} |-> IF y = x THEN v ELSE f[y]] :
          f \in {f0}, x \in {x0}, v \in {v0} })

NoTensor == [buffer |-> <<>>, scale |-> <<0, 1>>, zero_point |-> 0]

ComputeCell(cell) ==
    /\ pc = "cells"
    /\ cell \in Cells(p) \ DOMAIN buffer
    /\ \E r \in {PoolCell(p, input, cell, len)} :
          /\ buffer' = Extend(buffer, cell, r.out)
          /\ work' = Extend(work, cell, [len |-> r.len, sum |-> r.sum,
                                         fb |-> r.fb, y |-> r.y])
          /\ len' = r.len
    /\ UNCHANGED <<p, input, pc, output>>

\* the cells in the order of from_fn
ComputeNext == ComputeCell(CellAt(p, Cardinality(DOMAIN buffer)))

\* the cells in any order
ComputeAny == \E cell \in Cells(p) : ComputeCell(cell)

\* Tensor4D::new(buffer, output_scale, output_zero_point)
NewTensor ==
    /\ pc = "cells"
    /\ DOMAIN buffer = Cells(p)
    /\ output' = [buffer |-> buffer, scale |-> p.output_scale,
                  zero_point |-> p.output_zero_point]
    /\ pc' = "done"
    /\ UNCHANGED <<p, input, buffer, work, len>>

----------------------------------------------------------------------------
(* The calls explored.                                                     *)

MaxInRows == 2
MaxInCols == 2
MaxFilterRows == 3
MaxFilterCols == 3
MaxOutRows == 2
MaxOutCols == 2
MaxNumericCols == 3
MaxInterleavedCells == 4

Activations == {"NONE", "RELU", "RELU6"}

Strides == 1 .. 2

Chans == 1 .. 2

Paddings == {"SAME", "VALID"}

\* CONSTANTS of the unit test: 0.866_666_7 is the f32 0x3f5dddde and
\* 3.866_666_6 the f32 0x40777777
TestConstants == <<F32Fin(1, 14540254, -24), F32Fin(1, 16217975, -22)>>

\* (1.0, 0.0), (1.5, 16.0), (2.0, 0.0)
ConstPairs ==
    { TestConstants,
      <<F32FromInt(1), F32Zero>>,
      <<F32DivInt(3, 2), F32FromInt(16)>>,
      <<F32FromInt(2), F32Zero>> }

\* <<output_scale, output_zero_point>>: (0.15, 16) of the unit test, (0.5, -100)
QuantParams == { <<<<3, 20>>, 16>>, <<<<1, 2>>, -100>> }

Codes == {QMin, -30, QMax}

\* INPUT, FILTER_SHAPE, OUTPUT_SCALE, OUTPUT_ZERO_POINT, OPTIONS, CONSTANTS
TestInput ==
    [rc \in (0 .. 1) \X (0 .. 2) |->
        CASE rc = <<0, 0>> -> <<1, 2>>
          [] rc = <<0, 1>> -> <<3, 4>>
          [] rc = <<0, 2>> -> <<5, 6>>
          [] rc = <<1, 0>> -> <<7, 8>>
          [] rc = <<1, 1>> -> <<9, 10>>
          [] rc = <<1, 2>> -> <<11, 12>>]

TestParams ==
    [IR |-> 2, IC |-> 3, CH |-> 2, FR |-> 2, FC |-> 3, OR |-> 2, OC |-> 3,
     strides |-> <<1, 1>>, padding |-> "SAME", fused_activation |-> "NONE",
     constants |-> TestConstants, output_scale |-> <<3, 20>>,
     output_zero_point |-> 16]

\* OUTPUT.buffer
TestOutput ==
    [cell \in (0 .. 1) \X (0 .. 2) \X (0 .. 1) |->
        CASE cell = <<0, 0, 0>> -> 8  [] cell = <<0, 0, 1>> -> 9
          [] cell = <<0, 1, 0>> -> 9  [] cell = <<0, 1, 1>> -> 10
          [] cell = <<0, 2, 0>> -> 10 [] cell = <<0, 2, 1>> -> 11
          [] cell = <<1, 0, 0>> -> 11 [] cell = <<1, 0, 1>> -> 12
          [] cell = <<1, 1, 0>> -> 12 [] cell = <<1, 1, 1>> -> 13
          [] cell = <<1, 2, 0>> -> 13 [] cell = <<1, 2, 1>> -> 13]

\* the input whose codes count up from 1 in row, column, channel order
Ramp(q) ==
    [rc \in (0 .. q.IR - 1) \X (0 .. q.IC - 1) |->
        [ch \in 1 .. q.CH |-> (rc[1] * q.IC + rc[2]) * q.CH + ch]]

\* VALID: every window lies inside the input (the caller's obligation; an
\* index outside the buffer panics)
ValidFits(q) ==
    /\ q.strides[1] * (q.OR - 1) + q.FR <= q.IR
    /\ q.strides[2] * (q.OC - 1) + q.FC <= q.IC

\* every shape within the bounds, on the ramp input, without activation
GeometryParams ==
    { q \in [IR : 1 .. MaxInRows, IC : 1 .. MaxInCols, CH : Chans,
             FR : 1 .. MaxFilterRows, FC : 1 .. MaxFilterCols,
             OR : 1 .. MaxOutRows, OC : 1 .. MaxOutCols,
             strides : Strides \X Strides,
             padding : Paddings, fused_activation : {"NONE"},
             constants : {TestConstants}, output_scale : {<<3, 20>>},
             output_zero_point : {16}] :
        q.padding = "VALID" => ValidFits(q) }

\* one row of one channel with the output extent the padding policy gives,
\* every input over Codes, every pair of constants, every activation
NumericParams ==
    { q \in [IR : {1}, IC : 1 .. MaxNumericCols, CH : {1},
             FR : {1}, FC : 1 .. MaxNumericCols,
             OR : {1}, OC : 1 .. MaxNumericCols,
             strides : {1} \X Strides,
             padding : Paddings, fused_activation : Activations,
             constants : ConstPairs, output_scale : {qp[1] : qp \in QuantParams},
             output_zero_point : {qp[2] : qp \in QuantParams}] :
        /\ <<q.output_scale, q.output_zero_point>> \in QuantParams
        /\ q.FC <= q.IC
        /\ q.OC = IF q.padding = "SAME"
                  THEN (q.IC + q.strides[2] - 1) \div q.strides[2]
                  ELSE (q.IC - q.FC) \div q.strides[2] + 1 }

Start ==
    /\ buffer = <<>>
    /\ work = <<>>
    /\ len = p.FR * p.FC
    /\ pc = "cells"
    /\ output = NoTensor

InitTest == p = TestParams /\ input = TestInput /\ Start

InitGeometry == p \in GeometryParams /\ input = Ramp(p) /\ Start

InitNumeric ==
    /\ p \in NumericParams
    /\ input \in [(0 .. 0) \X (0 .. p.IC - 1) -> [1 .. 1 -> Codes]]
    /\ Start

Init == InitTest \/ InitGeometry \/ InitNumeric

Next == ComputeNext \/ NewTensor

Spec == Init /\ [][Next]_vars

\* the same call with its cells computed in any order
InitAnyOrder ==
    \/ InitTest
    \/ InitGeometry /\ Cardinality(Cells(p)) <= MaxInterleavedCells

NextAnyOrder == ComputeAny \/ NewTensor

SpecAnyOrder == InitAnyOrder /\ [][NextAnyOrder]_vars

----------------------------------------------------------------------------
(* What the properties speak of, stated independently of the gathering     *)
(* loop: window positions and their input indices as signed integers.      *)

Done == DOMAIN buffer

\* the cell the last step of from_fn computed.  A cell is written once and
\* never changed afterwards, and every computed cell is the latest one in
\* the state its step leads to, so what holds of Latest in every state of
\* Spec holds of every computed cell.
Latest ==
    IF buffer = <<>> THEN {} ELSE {CellAt(p, Cardinality(DOMAIN buffer) - 1)}

Positions(q) == (0 .. q.FR - 1) \X (0 .. q.FC - 1)

\* the input index of window position mn of a cell, which may be negative
IndexOf(q, cell, mn) ==
    IF q.padding = "SAME"
    THEN <<q.strides[1] * cell[1] + mn[1] - (q.FR - 1) \div 2,
           q.strides[2] * cell[2] + mn[2] - (q.FC - 1) \div 2>>
    ELSE <<q.strides[1] * cell[1] + mn[1], q.strides[2] * cell[2] + mn[2]>>

RowInRange(q, index) == 0 <= index[1] /\ index[1] < q.IR

ColInRange(q, index) == 0 <= index[2] /\ index[2] < q.IC

InBounds(q, cell) ==
    { mn \in Positions(q) :
        RowInRange(q, IndexOf(q, cell, mn)) /\ ColInRange(q, IndexOf(q, cell, mn)) }

InBoundsCount(q, cell) == Cardinality(InBounds(q, cell))

RECURSIVE SumOf(_, _, _, _)
SumOf(S, q, inp, cell) ==
    IF S = {} THEN 0
    ELSE LET mn == CHOOSE x \in S : TRUE
         IN  inp[IndexOf(q, cell, mn)][cell[3] + 1] + SumOf(S \ {mn}, q, inp, cell)

InBoundsSum(q, inp, cell) == SumOf(InBounds(q, cell), q, inp, cell)

\* round(multiplier * average + offset) before the saturation, and after it
ContractRounded(q, average) ==
    RoundF(F32Add(F32Mul(q.constants[1], average), q.constants[2]))

ContractCode(q, average) == F32ToQ(ContractRounded(q, average))

\* the average sum / count of the in-bounds window elements of a cell
WindowAverage(q, inp, cell) ==
    F32DivInt(InBoundsSum(q, inp, cell), InBoundsCount(q, cell))

\* round(6 / s) + z for the output scale s and zero point z
SixCode(q) == RoundDiv(6 * q.output_scale[2], q.output_scale[1]) + q.output_zero_point

\* the input with the values of channel c replaced by v
WithChannel(inp, c, v) ==
    [rc \in DOMAIN inp |->
        [ch \in 1 .. Len(inp[rc]) |-> IF ch = c + 1 THEN v ELSE inp[rc][ch]]]

\* the output buffer when the cells are computed one after the other in the
\* order of from_fn, each starting from the counter the previous one left
RECURSIVE SerialBuffer(_, _, _, _, _)
SerialBuffer(q, inp, k0, prev, buf0) ==
    Val({ IF k = Cardinality(Cells(q)) THEN buf
          ELSE Val({ SerialBuffer(q, inp, k + 1, r.len, Extend(buf, CellAt(q, k), r.out)) :
                     r \in {PoolCell(q, inp, CellAt(q, k), prev)} }) :
          k \in {k0}, buf \in {buf0} })

----------------------------------------------------------------------------
(* Properties.                                                             *)

\* C1: with SAME padding and no activation every computed output code is
\* saturate(round(multiplier * (sum of the in-bounds window elements /
\* their count) + offset)), and the call of the unit test returns OUTPUT
\* with scale 0.15 and zero point 16.
C1_SameMatchesContract ==
    /\ \A cell \in Latest :
          (/\ p.padding = "SAME"
           /\ p.fused_activation = "NONE"
           /\ InBoundsCount(p, cell) >= 1)
          => buffer[cell] = ContractCode(p, WindowAverage(p, input, cell))
    /\ (p = TestParams /\ input = TestInput /\ pc = "done")
          => output = [buffer |-> TestOutput, scale |-> <<3, 20>>, zero_point |-> 16]

\* the unit test alone: the call of average_pool_2d_layer returns OUTPUT
TestPasses ==
    (p = TestParams /\ input = TestInput /\ pc = "done")
        => output = [buffer |-> TestOutput, scale |-> <<3, 20>>, zero_point |-> 16]

\* C2: under SAME padding the divisor of every computed cell is the number
\* of window positions whose input index is in bounds, and the sum is the
\* sum of the input elements at those positions alone.
C2_DivisorCountsInBounds ==
    p.padding = "SAME"
    => \A cell \in Latest : \A inb \in {InBounds(p, cell)} :
          /\ work[cell].len = Cardinality(inb)
          /\ work[cell].sum = SumOf(inb, p, input, cell)
          /\ (inb = Positions(p) => work[cell].len = p.FR * p.FC)

\* a corner cell with a position out of range in its row and in its column,
\* a smaller divisor than the filter area, and an interior cell beside it
C2_CornerWitness ==
    /\ p.padding = "SAME"
    /\ \E cell \in Done :
          /\ \E mn \in Positions(p) :
                /\ ~RowInRange(p, IndexOf(p, cell, mn))
                /\ ~ColInRange(p, IndexOf(p, cell, mn))
          /\ work[cell].len >= 1
          /\ work[cell].len < p.FR * p.FC
    /\ \E cell \in Done : work[cell].len = p.FR * p.FC

\* C3: under SAME padding a computed cell whose window has no position in
\* bounds holds the output zero point.
C3_EmptyWindowGivesZeroPoint ==
    \A cell \in Latest :
        (p.padding = "SAME" /\ InBoundsCount(p, cell) = 0)
        => buffer[cell] = p.output_zero_point

\* C4: when round(multiplier * average + offset) is above the maximum or
\* below the minimum of the quantized type, the requantized code is that
\* maximum or minimum.
C4_RequantizationSaturates ==
    \A cell \in Latest :
        InBoundsCount(p, cell) >= 1
        => \A r \in {ContractRounded(p, WindowAverage(p, input, cell))} :
              /\ r.k = "fin"
              /\ r.v > QMax => work[cell].y = QMax
              /\ r.v < QMin => work[cell].y = QMin

\* one cell saturated at the maximum and one at the minimum
C4_BothEndsWitness ==
    /\ \E cell \in Done :
          /\ InBoundsCount(p, cell) >= 1
          /\ ContractRounded(p, WindowAverage(p, input, cell)).v > QMax
          /\ work[cell].y = QMax
    /\ \E cell \in Done :
          /\ InBoundsCount(p, cell) >= 1
          /\ ContractRounded(p, WindowAverage(p, input, cell)).v < QMin
          /\ work[cell].y = QMin

\* C5: with RELU every computed output code is max(y, z) of its requantized
\* code y and the output zero point z, hence at least z.
C5_ReluAtLeastZeroPoint ==
    p.fused_activation = "RELU"
    => \A cell \in Latest :
          /\ buffer[cell] >= p.output_zero_point
          /\ buffer[cell] = Max(work[cell].y, p.output_zero_point)

\* a cell raised to the zero point beside a cell left as requantized
C5_ClippedWitness ==
    /\ p.fused_activation = "RELU"
    /\ \E cell \in Done :
          work[cell].y < p.output_zero_point /\ buffer[cell] = p.output_zero_point
    /\ \E cell \in Done :
          work[cell].y > p.output_zero_point /\ buffer[cell] = work[cell].y

\* C6: with RELU6 every computed output code is max(z, min(y, round(6/s) + z))
\* and so lies between z and round(6/s) + z.
C6_Relu6Range ==
    p.fused_activation = "RELU6"
    => \A cell \in Latest :
          /\ buffer[cell] >= p.output_zero_point
          /\ buffer[cell] <= SixCode(p)
          /\ buffer[cell] = Max(p.output_zero_point, Min(work[cell].y, SixCode(p)))

\* a cell lowered to round(6/s) + z beside a cell raised to z
C6_BothClipsWitness ==
    /\ p.fused_activation = "RELU6"
    /\ \E cell \in Done : work[cell].y > SixCode(p) /\ buffer[cell] = SixCode(p)
    /\ \E cell \in Done :
          work[cell].y < p.output_zero_point /\ buffer[cell] = p.output_zero_point

UnitValid(q) ==
    /\ q.padding = "VALID"
    /\ q.FR = 1 /\ q.FC = 1
    /\ q.strides = <<1, 1>>
    /\ q.OR = q.IR /\ q.OC = q.IC
    /\ q.fused_activation = "NONE"

\* C7: under VALID padding with a 1x1 filter, strides (1, 1), the output
\* extents of the input and no activation, every computed output code is
\* saturate(round(multiplier * input(i, j, c) + offset)) and its divisor is 1.
C7_UnitFilterRequantizesInput ==
    UnitValid(p)
    => \A cell \in Latest :
          /\ work[cell].len = 1
          /\ buffer[cell] =
                ContractCode(p, F32FromInt(input[<<cell[1], cell[2]>>][cell[3] + 1]))

\* such a call, completed, over an input with two different codes that are
\* mapped to two different output codes
C7_UnitFilterWitness ==
    /\ UnitValid(p)
    /\ pc = "done"
    /\ \E c1 \in Done, c2 \in Done :
          /\ input[<<c1[1], c1[2]>>][c1[3] + 1] # input[<<c2[1], c2[2]>>][c2[3] + 1]
          /\ output.buffer[c1] # output.buffer[c2]

\* C8: whatever the order in which the cells are computed, the tensor
\* returned is the one the serial order of from_fn gives; a step leaves the
\* input unchanged and every cell already written as it is.
C8_OrderIndependent ==
    /\ [](pc = "done" =>
            /\ output.buffer = SerialBuffer(p, input, 0, p.FR * p.FC, <<>>)
            /\ output.scale = p.output_scale
            /\ output.zero_point = p.output_zero_point)
    /\ [][/\ input' = input
          /\ p' = p
          /\ \A cell \in Done : cell \in DOMAIN buffer' /\ buffer'[cell] = buffer[cell]]_vars

\* a call completed in another order than that of from_fn: the counter is
\* not as the last cell of that order leaves it
C8_OutOfOrderWitness ==
    /\ pc = "done"
    /\ len # work[CellAt(p, Cardinality(Cells(p)) - 1)].len

\* C9: under SAME padding, when strides[0] * (OUTPUT_ROWS - 1) <= INPUT_ROWS - 1
\* and strides[1] * (OUTPUT_COLS - 1) <= INPUT_COLS - 1, the divisor of every
\* computed cell is at least 1, the position ((FR-1)/2, (FC-1)/2) of its
\* window being in bounds.
WellFormedSame(q) ==
    /\ q.padding = "SAME"
    /\ q.strides[1] * (q.OR - 1) <= q.IR - 1
    /\ q.strides[2] * (q.OC - 1) <= q.IC - 1

C9_DivisorPositive ==
    WellFormedSame(p)
    => \A cell \in Latest :
          /\ work[cell].len >= 1
          /\ <<(p.FR - 1) \div 2, (p.FC - 1) \div 2>> \in InBounds(p, cell)

\* a cell of such a call whose window keeps a single position of several
C9_SinglePositionWitness ==
    /\ WellFormedSame(p)
    /\ \E cell \in Done : work[cell].len = 1 /\ p.FR * p.FC > 1

\* C10: the channel of every output cell is a channel every input pixel
\* stores, so the fallback to channel 0 is never taken, and replacing the
\* values of any other input channel leaves the cell as it is.
C10_ChannelsIndependent ==
    /\ \A cell \in Cells(p) : \A rc \in DOMAIN input : cell[3] < Len(input[rc])
    /\ \A cell \in Latest :
          /\ work[cell].fb = 0
          /\ \A other \in (0 .. p.CH - 1) \ {cell[3]} :
                buffer[cell] = PoolCell(p, WithChannel(input, other, QMax), cell, len).out

\* two channels of one pixel computed from different inputs to different codes
C10_TwoChannelsWitness ==
    /\ p.CH = 2
    /\ \E cell \in Done :
          /\ cell[3] = 1
          /\ <<cell[1], cell[2], 0>> \in Done
          /\ buffer[cell] # buffer[<<cell[1], cell[2], 0>>]
          /\ work[cell].len >= 1

====
